---- MODULE Spec2Model ----
(***************************************************************************)
(* Model of the Bravia API client: BraviaClient.initialize (the lazy       *)
(* initialization gate and the version compatibility check) and the public *)
(* methods of System and Audio, each as the function from the client's     *)
(* flag, its arguments and the device's answer to what the call returns or *)
(* raises and which requests it sends.                                     *)
(***************************************************************************)
EXTENDS Integers, Sequences, FiniteSets, TLC

(***************************************************************************)
(* Bounds.                                                                 *)
(***************************************************************************)
\* The interpreter's limit on nested calls (sys.getrecursionlimit(), 1000 by
\* default); a call that would nest deeper raises RecursionError.
RecursionLimit == 6
\* Number of calls made on one client in a run.
MaxCalls == 2
\* Largest volume number passed to the volume methods.
MaxVolume == 1
\* Largest major number of an interface version the device reports.
MaxMajor == 4

(***************************************************************************)
(* Python values: None, str, bool, int, list, dict and enum members.       *)
(***************************************************************************)
None == [t |-> "none"]
Str(s) == [t |-> "str", s |-> s]
Bool(b) == [t |-> "bool", b |-> b]
Num(n) == [t |-> "int", n |-> n]
List(q) == [t |-> "list", items |-> q]
Dict(d) == [t |-> "dict", kv |-> d]
Enum(c, n) == [t |-> "enum", cls |-> c, name |-> n]

IsStr(x, s) == x.t = "str" /\ x.s = s

\* The outcome of evaluating an expression: a value, or an exception.
V(v) == [raised |-> "", val |-> v]
E(e) == [raised |-> e, val |-> None]

\* x[k] for a str key k
GetItem(x, k) ==
    IF x.t = "dict"
    THEN IF k \in DOMAIN x.kv THEN V(x.kv[k]) ELSE E("KeyError")
    ELSE E("TypeError")

\* x[i] for an int index i >= 0 (a str here has at most one character)
GetIndex(x, i) ==
    CASE x.t = "list" -> IF i < Len(x.items) THEN V(x.items[i + 1]) ELSE E("IndexError")
      [] x.t = "dict" -> E("KeyError")
      [] x.t = "str" -> IF i < Len(x.s) THEN V(x) ELSE E("IndexError")
      [] OTHER -> E("TypeError")

\* x.get(k)
Get(x, k) ==
    IF x.t = "dict"
    THEN IF k \in DOMAIN x.kv THEN V(x.kv[k]) ELSE V(None)
    ELSE E("AttributeError")

\* len(x)
PyLen(x) ==
    CASE x.t = "list" -> V(Num(Len(x.items)))
      [] x.t = "dict" -> V(Num(Cardinality(DOMAIN x.kv)))
      [] x.t = "str" -> V(Num(Len(x.s)))
      [] OTHER -> E("TypeError")

\* k in x, for a str k of more than one character
In(k, x) ==
    CASE x.t = "dict" -> V(Bool(k \in DOMAIN x.kv))
      [] x.t = "list" -> V(Bool(\E i \in 1..Len(x.items) : IsStr(x.items[i], k)))
      [] x.t = "str" -> V(Bool(x.s = k))
      [] OTHER -> E("TypeError")

\* bool(x)
Truthy(x) ==
    CASE x.t = "none" -> FALSE
      [] x.t = "bool" -> x.b
      [] x.t = "int" -> x.n # 0
      [] x.t = "str" -> x.s # ""
      [] x.t = "list" -> x.items # <<>>
      [] x.t = "dict" -> DOMAIN x.kv # {}
      [] OTHER -> TRUE

\* util.coalesce_none_or_empty: None for None and for an empty value
coalesce_none_or_empty(x) ==
    IF x.t = "none" \/ IsStr(x, "") \/ (x.t = "list" /\ x.items = <<>>)
    THEN None ELSE x

(***************************************************************************)
(* Error codes.                                                            *)
(***************************************************************************)
ILLEGAL_ARGUMENT == 3
ILLEGAL_STATE == 7
TARGET_NOT_SUPPORTED == 40800
VOLUME_OUT_OF_RANGE == 40801
\* A device error code that no method treats specially
OtherErrorCode == 5
ErrorCodes == {ILLEGAL_ARGUMENT, ILLEGAL_STATE, TARGET_NOT_SUPPORTED,
               VOLUME_OUT_OF_RANGE, OtherErrorCode}

(***************************************************************************)
(* Interface versions.  A version string is modelled by the sequence of    *)
(* the numbers of its release segment ("3.0" is <<3, 0>>);                 *)
(* packaging.version.parse pads it with zeros and compares segment by      *)
(* segment.                                                                *)
(***************************************************************************)
Ver(q) == [t |-> "ver", rel |-> q]

Seg(q, i) == IF i <= Len(q) THEN q[i] ELSE 0

\* version.parse(a) < version.parse(b)
VersionLess(a, b) ==
    \E i \in 1..3 :
        /\ \A j \in 1..(i - 1) : Seg(a, j) = Seg(b, j)
        /\ Seg(a, i) < Seg(b, i)

(***************************************************************************)
(* The device.  err is the error code the HTTP client raises HttpError     *)
(* with for the next request (0: the request succeeds), resp the result    *)
(* the request returns when it succeeds.                                   *)
(***************************************************************************)
Answer(r) == [err |-> 0, resp |-> r]
Failure(c) == [err |-> c, resp |-> None]

(***************************************************************************)
(* The outcome of a call: the exception it raised ("" when it returned),   *)
(* the value it returned, the requests it sent (each with the state of the *)
(* client's flag when it was sent), the client's flag afterwards, and the  *)
(* deepest call nesting it reached.                                        *)
(***************************************************************************)
Outcome(e, v, q, f, d) ==
    [raised |-> e, val |-> v, reqs |-> q, flag |-> f, frames |-> d]

\* the call returns v
Returns(g, v) == [g EXCEPT !.raised = "", !.val = v]
\* the call raises e
Raises(g, e) == [g EXCEPT !.raised = e, !.val = None]
\* self.http_client.request(method=m, ...) is issued
Sends(g, m) == [g EXCEPT !.reqs = Append(@, [method |-> m, init |-> g.flag])]
\* the result of evaluating an expression, as the outcome of the call
Finish(g, x) == IF x.raised = "" THEN Returns(g, x.val) ELSE Raises(g, x.raised)

\* A call one level below depth d is refused by the interpreter.
TooDeep(d) == d + 1 > RecursionLimit

(***************************************************************************)
(* System.get_interface_information after its initialize() call has come   *)
(* back with outcome g.                                                    *)
(***************************************************************************)
get_interface_information_request(g, dev) ==
    IF g.raised # "" THEN g
    ELSE LET s == Sends(g, "getInterfaceInformation") IN
         IF dev.err # 0 THEN Raises(s, "BraviaApiError")
         ELSE LET response == dev.resp
                  field(k) == Get(response, k)
              IN  IF response.t # "dict" THEN Raises(s, "AttributeError")
                  ELSE Returns(s, Dict(
                      [product_category |-> coalesce_none_or_empty(field("productCategory").val),
                       product_name |-> coalesce_none_or_empty(field("productName").val),
                       model_name |-> coalesce_none_or_empty(field("modelName").val),
                       server_name |-> coalesce_none_or_empty(field("serverName").val),
                       interface_version |-> coalesce_none_or_empty(field("interfaceVersion").val)]))

(***************************************************************************)
(* BraviaClient.initialize from the point where its call of                *)
(* self.system.get_interface_information() has come back with outcome r.   *)
(***************************************************************************)
initialize_check(r) ==
    IF r.raised = "HttpError" THEN Raises(r, "ApiError")
    ELSE IF r.raised # "" THEN r
    ELSE LET api_version == r.val.kv["interface_version"] IN
         IF api_version.t = "none" THEN Raises(r, "ApiError")
         ELSE IF api_version.t # "ver" THEN Raises(r, "TypeError")
         ELSE IF \/ ~VersionLess(api_version.rel, <<4, 0, 0>>)
                 \/ VersionLess(api_version.rel, <<3, 0, 0>>)
              THEN Raises(r, "ApiError")
              ELSE [Returns(r, None) EXCEPT !.flag = TRUE]

(***************************************************************************)
(* BraviaClient.initialize and System.get_interface_information, each      *)
(* called at nesting depth d on a client whose flag is flag.               *)
(***************************************************************************)
RECURSIVE initialize(_, _, _)
RECURSIVE get_interface_information(_, _, _)

initialize(flag, d, dev) ==
    IF flag THEN Outcome("", None, <<>>, flag, d)
    ELSE IF TooDeep(d) THEN Outcome("RecursionError", None, <<>>, flag, d)
    ELSE initialize_check(get_interface_information(flag, d + 1, dev))

get_interface_information(flag, d, dev) ==
    IF TooDeep(d) THEN Outcome("RecursionError", None, <<>>, flag, d)
    ELSE get_interface_information_request(initialize(flag, d + 1, dev), dev)

(***************************************************************************)
(* The compatibility gate as a method running at depth d calls it:         *)
(* self.bravia_client.initialize().                                        *)
(***************************************************************************)
\* A method that goes on to its request without calling initialize().
Gate_skipped(flag, d, dev) == Outcome("", None, <<>>, flag, d)

Gate(flag, d, dev) ==
    IF TooDeep(d) THEN Outcome("RecursionError", None, <<>>, flag, d)
    ELSE initialize(flag, d + 1, dev)

\* The same call made again by a method that a gated method calls, on the
\* client as the first call (outcome g) left it.
Regate(g, dev) ==
    LET n == Gate(g.flag, g.frames, dev)
    IN  [n EXCEPT !.reqs = g.reqs \o n.reqs]

\* table.get(x, default) for a dict with str keys
Lookup(table, x, default) ==
    IF x.t \in {"list", "dict"} THEN E("TypeError")
    ELSE IF x.t = "str" /\ x.s \in DOMAIN table THEN V(table[x.s])
    ELSE V(default)

(***************************************************************************)
(* System.  Each method is given the outcome g of its own initialize()     *)
(* call, its arguments and the device.                                     *)
(***************************************************************************)
set_power_status(g, power_state, dev) ==
    IF g.raised # "" THEN g
    ELSE IF power_state.t # "bool" THEN Raises(g, "TypeError")
    ELSE LET s == Sends(g, "setPowerStatus") IN
         IF dev.err # 0 THEN Raises(s, "BraviaApiError") ELSE Returns(s, None)

power_on(g, dev) ==
    IF g.raised # "" THEN g ELSE set_power_status(Regate(g, dev), Bool(TRUE), dev)

power_off(g, dev) ==
    IF g.raised # "" THEN g ELSE set_power_status(Regate(g, dev), Bool(FALSE), dev)

get_power_status(g, dev) ==
    IF g.raised # "" THEN g
    ELSE LET s == Sends(g, "getPowerStatus") IN
         IF dev.err # 0 THEN Raises(s, "BraviaApiError")
         ELSE LET status == GetItem(dev.resp, "status") IN
              IF status.raised # "" THEN Raises(s, status.raised)
              ELSE IF IsStr(status.val, "standby") THEN Returns(s, Bool(FALSE))
              ELSE IF IsStr(status.val, "active") THEN Returns(s, Bool(TRUE))
              ELSE Raises(s, "BraviaApiError")

\* dateutil's parser.parse: the date of a date string
ValidDates == {"2019-01-23T12:34:56+0900"}
date_parse(x) ==
    IF x.t # "str" THEN E("TypeError")
    ELSE IF x.s \in ValidDates THEN V([t |-> "datetime", text |-> x.s])
    ELSE E("ValueError")

get_current_time(g, dev) ==
    IF g.raised # "" THEN g
    ELSE LET s == Sends(g, "getCurrentTime") IN
         IF dev.err = ILLEGAL_STATE THEN Returns(s, None)
         ELSE IF dev.err # 0 THEN Raises(s, "BraviaApiError")
         ELSE LET dateTime == GetItem(dev.resp, "dateTime") IN
              IF dateTime.raised # "" THEN Raises(s, dateTime.raised)
              ELSE Finish(s, date_parse(dateTime.val))

LedModes ==
    [Demo |-> Enum("LedMode", "DEMO"),
     AutoBrightnessAdjust |-> Enum("LedMode", "AUTO_BRIGHTNESS"),
     Dark |-> Enum("LedMode", "DARK"),
     SimpleResponse |-> Enum("LedMode", "SIMPLE_RESPONSE"),
     Off |-> Enum("LedMode", "OFF")]

get_led_status(g, dev) ==
    IF g.raised # "" THEN g
    ELSE LET s == Sends(g, "getLEDIndicatorStatus") IN
         IF dev.err # 0 THEN Raises(s, "BraviaApiError")
         ELSE LET response == dev.resp
                  hasStatus == In("status", response)
                  status == GetItem(response, "status")
                  led_status == IF IsStr(status.val, "true") THEN Bool(TRUE)
                                ELSE IF IsStr(status.val, "false") THEN Bool(FALSE)
                                ELSE None
                  hasMode == In("mode", response)
                  mode == Get(response, "mode")
                  led_mode == Lookup(LedModes, mode.val, Enum("LedMode", "UNKNOWN"))
              IN  IF hasStatus.raised # "" THEN Raises(s, hasStatus.raised)
                  ELSE IF hasStatus.val.b /\ status.raised # "" THEN Raises(s, status.raised)
                  ELSE IF ~hasMode.val.b
                       THEN Returns(s, Dict([status |-> IF hasStatus.val.b THEN led_status ELSE None,
                                             mode |-> None]))
                  ELSE IF mode.raised # "" THEN Raises(s, mode.raised)
                  ELSE IF led_mode.raised # "" THEN Raises(s, led_mode.raised)
                  ELSE IF led_mode.val = Enum("LedMode", "UNKNOWN") THEN Raises(s, "BraviaApiError")
                  ELSE Returns(s, Dict([status |-> IF hasStatus.val.b THEN led_status ELSE None,
                                        mode |-> led_mode.val]))

iface_info(iface) ==
    Dict([name |-> coalesce_none_or_empty(Get(iface, "netif").val),
          mac |-> coalesce_none_or_empty(Get(iface, "hwAddr").val),
          ip_v4 |-> coalesce_none_or_empty(Get(iface, "ipAddrV4").val),
          ip_v6 |-> coalesce_none_or_empty(Get(iface, "ipAddrV6").val),
          netmask |-> coalesce_none_or_empty(Get(iface, "netmask").val),
          gateway |-> coalesce_none_or_empty(Get(iface, "gateway").val),
          dns_servers |-> coalesce_none_or_empty(Get(iface, "dns").val)])

get_network_settings(g, interface, dev) ==
    IF g.raised # "" THEN g
    ELSE LET request_interface == IF Truthy(interface) THEN interface ELSE Str("") IN
         IF request_interface.t # "str" THEN Raises(g, "TypeError")
         ELSE LET s == Sends(g, "getNetworkSettings")
                  response == dev.resp
                  network_interfaces ==
                      [i \in 1..Len(response.items) |-> iface_info(response.items[i])]
              IN  IF dev.err = ILLEGAL_ARGUMENT THEN Returns(s, None)
                  ELSE IF dev.err # 0 THEN Raises(s, "BraviaApiError")
                  ELSE IF response.t # "list" THEN Raises(s, "BraviaApiError")
                  ELSE IF \E i \in 1..Len(response.items) : response.items[i].t # "dict"
                       THEN Raises(s, "AttributeError")
                  ELSE IF interface.t # "none"
                       THEN Finish(s, GetIndex(List(network_interfaces), 0))
                  ELSE Returns(s, List(network_interfaces))

PowerSavingModes ==
    [off |-> Enum("PowerSavingMode", "OFF"),
     low |-> Enum("PowerSavingMode", "LOW"),
     high |-> Enum("PowerSavingMode", "HIGH"),
     pictureOff |-> Enum("PowerSavingMode", "PICTURE_OFF")]

get_power_saving_mode(g, dev) ==
    IF g.raised # "" THEN g
    ELSE LET s == Sends(g, "getPowerSavingMode") IN
         IF dev.err # 0 THEN Raises(s, "BraviaApiError")
         ELSE LET response == dev.resp
                  hasMode == In("mode", response)
                  mode == Get(response, "mode")
                  saving_mode == Lookup(PowerSavingModes, mode.val,
                                        Enum("PowerSavingMode", "UNKNOWN"))
              IN  IF hasMode.raised # "" THEN Raises(s, hasMode.raised)
                  ELSE IF ~hasMode.val.b THEN Returns(s, Dict([mode |-> None]))
                  ELSE IF mode.raised # "" THEN Raises(s, mode.raised)
                  ELSE IF saving_mode.raised # "" THEN Raises(s, saving_mode.raised)
                  ELSE IF saving_mode.val = Enum("PowerSavingMode", "UNKNOWN")
                       THEN Raises(s, "BraviaApiError")
                  ELSE Returns(s, Dict([mode |-> saving_mode.val]))

\* for button in buttons: button_codes[button["name"]] = button["value"]
RECURSIVE button_codes(_, _, _)
button_codes(buttons, i, acc) ==
    IF i > Len(buttons) THEN V(Dict(acc))
    ELSE LET name == GetItem(buttons[i], "name")
             value == GetItem(buttons[i], "value")
         IN  IF name.raised # "" THEN E(name.raised)
             ELSE IF value.raised # "" THEN E(value.raised)
             ELSE IF name.val.t \in {"list", "dict"} THEN E("TypeError")
             ELSE LET key == IF name.val.t = "str" THEN name.val.s
                             ELSE "<" \o name.val.t \o ">"
                  IN  button_codes(buttons, i + 1,
                                   [k \in DOMAIN acc \cup {key} |->
                                       IF k = key THEN value.val ELSE acc[k]])

\* the values a for loop over x visits
Iterate(x) ==
    CASE x.t = "list" -> V(x.items)
      [] x.t = "dict" ->
            LET RECURSIVE keys(_)
                keys(ks) == IF ks = {} THEN <<>>
                            ELSE LET k == CHOOSE k \in ks : TRUE
                                 IN  <<Str(k)>> \o keys(ks \ {k})
            IN  V(keys(DOMAIN x.kv))
      [] x.t = "str" -> V(IF x.s = "" THEN <<>> ELSE <<x>>)
      [] OTHER -> E("TypeError")

get_remote_control_info(g, dev) ==
    IF g.raised # "" THEN g
    ELSE LET s == Sends(g, "getRemoteControllerInfo") IN
         IF dev.err # 0 THEN Raises(s, "BraviaApiError")
         ELSE LET response == dev.resp
                  length == PyLen(response)
                  second == GetIndex(response, 1)
                  buttons == Iterate(second.val)
              IN  IF length.raised # "" THEN Raises(s, length.raised)
                  ELSE IF length.val.n # 2 THEN Raises(s, "BraviaApiError")
                  ELSE IF second.raised # "" THEN Raises(s, second.raised)
                  ELSE IF buttons.raised # "" THEN Raises(s, buttons.raised)
                  ELSE Finish(s, button_codes(buttons.val, 1, <<>>))

get_remote_access_status(g, dev) ==
    IF g.raised # "" THEN g
    ELSE LET s == Sends(g, "getRemoteDeviceSettings") IN
         IF dev.err # 0 THEN Raises(s, "BraviaApiError")
         ELSE LET response == dev.resp
                  length == PyLen(response)
                  first == GetIndex(response, 0)
                  currentValue == GetItem(first.val, "currentValue")
                  \* the message of the final raise formats response["currentValue"]
                  message == GetItem(response, "currentValue")
              IN  IF length.raised # "" THEN Raises(s, length.raised)
                  ELSE IF length.val.n # 1 THEN Raises(s, "BraviaApiError")
                  ELSE IF first.raised # "" THEN Raises(s, first.raised)
                  ELSE IF currentValue.raised # "" THEN Raises(s, currentValue.raised)
                  ELSE IF IsStr(currentValue.val, "on") THEN Returns(s, Bool(TRUE))
                  ELSE IF IsStr(currentValue.val, "false") THEN Returns(s, Bool(FALSE))
                  ELSE IF message.raised # "" THEN Raises(s, message.raised)
                  ELSE Raises(s, "BraviaApiError")

get_system_information(g, dev) ==
    IF g.raised # "" THEN g
    ELSE LET s == Sends(g, "getSystemInformation") IN
         IF dev.err # 0 THEN Raises(s, "BraviaApiError")
         ELSE LET response == dev.resp
                  field(k) == coalesce_none_or_empty(Get(response, k).val)
              IN  IF response.t # "dict" THEN Raises(s, "AttributeError")
                  ELSE Returns(s, Dict([product |-> field("product"),
                                        language |-> field("language"),
                                        model |-> field("model"),
                                        serial |-> field("serial"),
                                        mac |-> field("macAddr"),
                                        name |-> field("name"),
                                        generation |-> field("generation")]))

get_wake_on_lan_information(g, dev) ==
    IF g.raised # "" THEN g
    ELSE LET s == Sends(g, "getSystemSupportedFunction") IN
         IF dev.err # 0 THEN Raises(s, "BraviaApiError")
         ELSE LET response == dev.resp
                  length == PyLen(response)
                  wol_info == GetIndex(response, 0)
                  option == GetItem(wol_info.val, "option")
                  value == GetItem(wol_info.val, "value")
              IN  IF length.raised # "" THEN Raises(s, length.raised)
                  ELSE IF length.val.n # 1 THEN Raises(s, "BraviaApiError")
                  ELSE IF wol_info.raised # "" THEN Raises(s, wol_info.raised)
                  ELSE IF option.raised # "" THEN Raises(s, option.raised)
                  ELSE IF ~IsStr(option.val, "WOL") THEN Raises(s, "BraviaApiError")
                  ELSE IF value.raised # "" THEN Raises(s, value.raised)
                  ELSE Returns(s, Dict([mac |-> value.val]))

get_wake_on_lan_status(g, dev) ==
    IF g.raised # "" THEN g
    ELSE LET s == Sends(g, "getWolMode") IN
         IF dev.err # 0 THEN Raises(s, "BraviaApiError")
         ELSE LET enabled == Get(dev.resp, "enabled") IN
              IF enabled.raised # "" THEN Raises(s, enabled.raised)
              ELSE IF enabled.val.t # "bool" THEN Raises(s, "BraviaApiError")
              ELSE Returns(s, enabled.val)

request_reboot(g, dev) ==
    IF g.raised # "" THEN g
    ELSE LET s == Sends(g, "requestReboot") IN
         IF dev.err # 0 THEN Raises(s, "BraviaApiError") ELSE Returns(s, None)

LedModeNames == {"AUTO_BRIGHTNESS", "DARK", "SIMPLE_RESPONSE", "DEMO", "OFF"}

set_led_status(g, mode, enabled, dev) ==
    IF g.raised # "" THEN g
    ELSE IF enabled.t \notin {"none", "bool"} THEN Raises(g, "TypeError")
    ELSE IF ~(mode.t = "enum" /\ mode.cls = "LedMode") THEN Raises(g, "TypeError")
    ELSE IF mode.name = "UNKNOWN" THEN Raises(g, "ValueError")
    ELSE IF mode.name \notin LedModeNames THEN Raises(g, "BraviaInternalError")
    ELSE LET s == Sends(g, "setLEDIndicatorStatus") IN
         IF dev.err # 0 THEN Raises(s, "BraviaApiError") ELSE Returns(s, None)

set_language(g, language, dev) ==
    IF g.raised # "" THEN g
    ELSE IF language.t # "str" THEN Raises(g, "TypeError")
    ELSE LET s == Sends(g, "setLanguage") IN
         IF dev.err # 0 THEN Raises(s, "BraviaApiError") ELSE Returns(s, None)

PowerSavingModeNames == {"OFF", "LOW", "HIGH", "PICTURE_OFF"}

set_power_saving_mode(g, mode, dev) ==
    IF g.raised # "" THEN g
    ELSE IF ~(mode.t = "enum" /\ mode.cls = "PowerSavingMode") THEN Raises(g, "TypeError")
    ELSE IF mode.name = "UNKNOWN" THEN Raises(g, "ValueError")
    ELSE IF mode.name \notin PowerSavingModeNames THEN Raises(g, "BraviaInternalError")
    ELSE LET s == Sends(g, "setPowerSavingMode") IN
         IF dev.err # 0 THEN Raises(s, "BraviaApiError") ELSE Returns(s, None)

set_wake_on_lan_status(g, enabled, dev) ==
    IF g.raised # "" THEN g
    ELSE IF enabled.t # "bool" THEN Raises(g, "TypeError")
    ELSE LET s == Sends(g, "setWolMode") IN
         IF dev.err # 0 THEN Raises(s, "BraviaApiError") ELSE Returns(s, None)

(***************************************************************************)
(* Audio.                                                                  *)
(***************************************************************************)
AudioOutputs ==
    [speaker |-> Enum("AudioOutputs", "SPEAKER"),
     speaker_hdmi |-> Enum("AudioOutputs", "SPEAKER_HDMI"),
     hdmi |-> Enum("AudioOutputs", "HDMI"),
     audioSystem |-> Enum("AudioOutputs", "AUDIO_SYSTEM")]

get_sound_settings(g, dev) ==
    IF g.raised # "" THEN g
    ELSE LET s == Sends(g, "getSoundSettings") IN
         IF dev.err = ILLEGAL_ARGUMENT THEN Returns(s, None)
         ELSE IF dev.err # 0 THEN Raises(s, "BraviaApiError")
         ELSE LET response == dev.resp
                  output_terminal == GetIndex(response, 0)
                  currentValue == Get(output_terminal.val, "currentValue")
                  current_output == Lookup(AudioOutputs, currentValue.val,
                                           Enum("AudioOutputs", "UNKNOWN"))
              IN  IF response.t # "list" \/ Len(response.items) > 1
                  THEN Raises(s, "BraviaApiError")
                  ELSE IF output_terminal.raised # "" THEN Raises(s, output_terminal.raised)
                  ELSE IF currentValue.raised # "" THEN Raises(s, currentValue.raised)
                  ELSE IF current_output.raised # "" THEN Raises(s, current_output.raised)
                  ELSE IF current_output.val = Enum("AudioOutputs", "UNKNOWN")
                       THEN Raises(s, "BraviaApiError")
                  ELSE Returns(s, Dict(
                      [name |-> coalesce_none_or_empty(Get(output_terminal.val, "target").val),
                       output |-> current_output.val]))

TvPositions ==
    [tableTop |-> Enum("TvPosition", "TABLE_TOP"),
     wallMount |-> Enum("TvPosition", "WALL_MOUNT")]

SubwooferPhases ==
    [normal |-> Enum("SubwooferPhase", "NORMAL"),
     reverse |-> Enum("SubwooferPhase", "REVERSE")]

\* for setting in response: ... of get_speaker_settings, from element i on
RECURSIVE speaker_settings(_, _, _)
speaker_settings(response, i, settings) ==
    IF i > Len(response) THEN V(Dict(settings))
    ELSE LET setting == response[i]
             target == Get(setting, "target")
             currentValue == Get(setting, "currentValue").val
             position == Lookup(TvPositions, currentValue, Enum("TvPosition", "UNKNOWN"))
             phase == Lookup(SubwooferPhases, currentValue, Enum("SubwooferPhase", "UNKNOWN"))
             next(x) == speaker_settings(response, i + 1, x)
         IN  IF target.raised # "" THEN E(target.raised)
             ELSE IF IsStr(target.val, "tvPosition")
                  THEN IF position.raised # "" THEN E(position.raised)
                       ELSE IF position.val = Enum("TvPosition", "UNKNOWN")
                            THEN E("BraviaApiError")
                       ELSE next([settings EXCEPT !.tv_position = position.val])
             ELSE IF IsStr(target.val, "subwooferLevel")
                  THEN next([settings EXCEPT !.subwoofer_level = currentValue])
             ELSE IF IsStr(target.val, "subwooferFreq")
                  THEN next([settings EXCEPT !.subwoofer_frequency = currentValue])
             ELSE IF IsStr(target.val, "subwooferPhase")
                  THEN IF phase.raised # "" THEN E(phase.raised)
                       ELSE IF phase.val = Enum("SubwooferPhase", "UNKNOWN")
                            THEN E("BraviaApiError")
                       ELSE next([settings EXCEPT !.subwoofer_phase = phase.val])
             ELSE IF IsStr(target.val, "subwooferPower")
                  THEN next([settings EXCEPT
                                !.subwoofer_power = Bool(IsStr(currentValue, "on"))])
             ELSE next(settings)

get_speaker_settings(g, dev) ==
    IF g.raised # "" THEN g
    ELSE LET s == Sends(g, "getSpeakerSettings") IN
         IF dev.err # 0 THEN Raises(s, "HttpError")
         ELSE IF dev.resp.t # "list" THEN Raises(s, "BraviaApiError")
         ELSE Finish(s, speaker_settings(dev.resp.items, 1,
                  [tv_position |-> None, subwoofer_level |-> None,
                   subwoofer_frequency |-> None, subwoofer_phase |-> None,
                   subwoofer_power |-> None]))

VolumeDevices ==
    [speaker |-> Enum("VolumeDevice", "SPEAKERS"),
     headphone |-> Enum("VolumeDevice", "HEADPHONES")]

\* for this_device in response: ... of get_volume_information, from element i on
RECURSIVE volume_devices(_, _, _)
volume_devices(response, i, devices) ==
    IF i > Len(response) THEN V(List(devices))
    ELSE LET this_device == response[i]
             target == Get(this_device, "target")
             device_type == Lookup(VolumeDevices, target.val, None)
             device_info ==
                 Dict([type |-> device_type.val,
                       volume |-> Get(this_device, "volume").val,
                       muted |-> Bool(Truthy(Get(this_device, "mute").val)),
                       min_volume |-> Get(this_device, "minVolume").val,
                       max_volume |-> Get(this_device, "maxVolume").val])
         IN  IF target.raised # "" THEN E(target.raised)
             ELSE IF device_type.raised # "" THEN E(device_type.raised)
             ELSE IF device_type.val.t = "none" THEN volume_devices(response, i + 1, devices)
             ELSE volume_devices(response, i + 1, Append(devices, device_info))

get_volume_information(g, dev) ==
    IF g.raised # "" THEN g
    ELSE LET s == Sends(g, "getVolumeInformation") IN
         IF dev.err # 0 THEN Raises(s, "HttpError")
         ELSE IF dev.resp.t # "list" THEN Raises(s, "BraviaApiError")
         ELSE Finish(s, volume_devices(dev.resp.items, 1, <<>>))

set_mute(g, mute, dev) ==
    IF g.raised # "" THEN g
    ELSE IF mute.t # "bool" THEN Raises(g, "TypeError")
    ELSE LET s == Sends(g, "setAudioMute") IN
         IF dev.err # 0 THEN Raises(s, "HttpError") ELSE Returns(s, None)

\* str(n) of an int
Digits == <<"0", "1", "2", "3", "4", "5", "6", "7", "8", "9">>
RECURSIVE NatStr(_)
NatStr(n) == IF n < 10 THEN Digits[n + 1]
             ELSE NatStr(n \div 10) \o Digits[(n % 10) + 1]
IntStr(n) == IF n < 0 THEN "-" \o NatStr(-n) ELSE NatStr(n)

\* re.match(r'^[+-]\d+$', s) is not None, for the numbers the model passes
MatchesSignedNumber(s) ==
    \E sign \in {"+", "-"}, n \in 0..(MaxVolume + 1) : s = sign \o NatStr(n)

set_volume(g, volume, show_ui, device, dev) ==
    IF g.raised # "" THEN g
    ELSE IF device.t # "none" /\ ~(device.t = "enum" /\ device.cls = "VolumeDevice")
         THEN Raises(g, "TypeError")
    ELSE IF device.t = "enum" /\ device.name = "UNKNOWN" THEN Raises(g, "ValueError")
    ELSE IF volume.t \notin {"int", "str"} THEN Raises(g, "TypeError")
    ELSE IF volume.t = "str" /\ ~MatchesSignedNumber(volume.s) THEN Raises(g, "ValueError")
    ELSE IF show_ui.t # "bool" THEN Raises(g, "TypeError")
    ELSE IF device.t = "enum" /\ device.name \notin {"SPEAKERS", "HEADPHONES"}
         THEN Raises(g, "BraviaApiError")
    ELSE LET s == Sends(g, "setAudioVolume") IN
         IF dev.err # 0 THEN Raises(s, "BraviaApiError") ELSE Returns(s, None)

(***************************************************************************)
(* A call of public method m, made at depth 1 with arguments a.  g is the   *)
(* outcome of the initialize() call of a method running at depth 1, g2 of  *)
(* one running at depth 2: mute, unmute and the three volume methods call  *)
(* set_mute and set_volume, which run one level deeper.                    *)
(***************************************************************************)
NoArgMethods ==
    {"power_on", "power_off", "get_power_status", "get_current_time",
     "get_interface_information", "get_led_status", "get_power_saving_mode",
     "get_remote_control_info", "get_remote_access_status",
     "get_system_information", "get_wake_on_lan_information",
     "get_wake_on_lan_status", "request_reboot", "get_sound_settings",
     "get_speaker_settings", "get_volume_information", "mute", "unmute"}

ArgMethods ==
    {"set_power_status", "get_network_settings", "set_led_status", "set_language",
     "set_power_saving_mode", "set_wake_on_lan_status", "set_mute",
     "set_volume_level", "increase_volume", "decrease_volume", "set_volume"}

ApiMethods == NoArgMethods \cup ArgMethods

Run(m, a, g, g2, dev) ==
    LET untouched == Outcome("", None, <<>>, g.flag, 1)
    IN  CASE m = "power_on" -> power_on(g, dev)
          [] m = "power_off" -> power_off(g, dev)
          [] m = "set_power_status" -> set_power_status(g, a[1], dev)
          [] m = "get_power_status" -> get_power_status(g, dev)
          [] m = "get_current_time" -> get_current_time(g, dev)
          [] m = "get_interface_information" -> get_interface_information_request(g, dev)
          [] m = "get_led_status" -> get_led_status(g, dev)
          [] m = "get_network_settings" -> get_network_settings(g, a[1], dev)
          [] m = "get_power_saving_mode" -> get_power_saving_mode(g, dev)
          [] m = "get_remote_control_info" -> get_remote_control_info(g, dev)
          [] m = "get_remote_access_status" -> get_remote_access_status(g, dev)
          [] m = "get_system_information" -> get_system_information(g, dev)
          [] m = "get_wake_on_lan_information" -> get_wake_on_lan_information(g, dev)
          [] m = "get_wake_on_lan_status" -> get_wake_on_lan_status(g, dev)
          [] m = "request_reboot" -> request_reboot(g, dev)
          [] m = "set_led_status" -> set_led_status(g, a[1], a[2], dev)
          [] m = "set_language" -> set_language(g, a[1], dev)
          [] m = "set_power_saving_mode" -> set_power_saving_mode(g, a[1], dev)
          [] m = "set_wake_on_lan_status" -> set_wake_on_lan_status(g, a[1], dev)
          [] m = "get_sound_settings" -> get_sound_settings(g, dev)
          [] m = "get_speaker_settings" -> get_speaker_settings(g, dev)
          [] m = "get_volume_information" -> get_volume_information(g, dev)
          [] m = "mute" -> set_mute(g2, Bool(TRUE), dev)
          [] m = "unmute" -> set_mute(g2, Bool(FALSE), dev)
          [] m = "set_mute" -> set_mute(g, a[1], dev)
          [] m = "set_volume_level" ->
                IF a[1].t # "int" THEN Raises(untouched, "TypeError")
                ELSE set_volume(g2, a[1], a[2], a[3], dev)
          [] m = "increase_volume" ->
                IF a[1].t # "int" THEN Raises(untouched, "TypeError")
                ELSE set_volume(g2, Str("+" \o IntStr(a[1].n)), a[2], a[3], dev)
          [] m = "decrease_volume" ->
                IF a[1].t # "int" THEN Raises(untouched, "TypeError")
                ELSE set_volume(g2, Str("-" \o IntStr(a[1].n)), a[2], a[3], dev)
          [] m = "set_volume" -> set_volume(g, a[1], a[2], a[3], dev)

Invoke(m, a, flag, dev) == Run(m, a, Gate(flag, 1, dev), Gate(flag, 2, dev), dev)

(***************************************************************************)
(* Inputs: the arguments the methods are called with.                      *)
(***************************************************************************)
NoArgs == <<None, None, None>>
One(S) == {<<x, None, None>> : x \in S}
Volumes == {Num(n) : n \in (-1)..MaxVolume}
ShowUi == {Bool(TRUE), Num(1)}
VolumeTargets == {None, Enum("VolumeDevice", "HEADPHONES"),
                  Enum("VolumeDevice", "UNKNOWN")}

\* (volume, show_ui, device), one of them varied at a time
VolumeArgs(S) ==
    {<<x, Bool(TRUE), None>> : x \in S}
    \cup {<<Num(MaxVolume), y, None>> : y \in ShowUi}
    \cup {<<Num(MaxVolume), Bool(TRUE), z>> : z \in VolumeTargets}

ArgsOf(m) ==
    CASE m = "set_power_status" -> One({Bool(TRUE), Bool(FALSE), Str("on")})
      [] m = "get_network_settings" -> One({None, Str("eth0"), Num(1)})
      [] m = "set_led_status" ->
            {<<x, y, None>> : x \in {Enum("LedMode", "DEMO"), Enum("LedMode", "UNKNOWN"),
                                     Str("Demo")},
                              y \in {None, Bool(TRUE), Str("on")}}
      [] m = "set_language" -> One({Str("eng"), None})
      [] m = "set_power_saving_mode" ->
            One({Enum("PowerSavingMode", "LOW"), Enum("PowerSavingMode", "UNKNOWN"),
                 Str("low")})
      [] m = "set_wake_on_lan_status" -> One({Bool(TRUE), None})
      [] m = "set_mute" -> One({Bool(TRUE), Bool(FALSE), None})
      [] m \in {"set_volume_level", "increase_volume", "decrease_volume"} ->
            VolumeArgs(Volumes \cup {Str("1")})
      [] m = "set_volume" -> VolumeArgs(Volumes \cup {Str("+1"), Str("1"), Bool(TRUE)})
      [] OTHER -> {NoArgs}

(***************************************************************************)
(* Inputs: what the device answers.                                        *)
(***************************************************************************)
Versions ==
    {<<a>> : a \in 2..MaxMajor} \cup {<<a, b>> : a \in 3..MaxMajor, b \in {0}}
    \cup {<<a, b, c>> : a \in 2..MaxMajor, b \in 0..1, c \in 0..1}

InterfaceResponses ==
    {Dict([interfaceVersion |-> Ver(v), productName |-> Str("BRAVIA")]) : v \in Versions}
    \cup {Dict([interfaceVersion |-> Str(""), productName |-> Str("BRAVIA")]),
          Dict([interfaceVersion |-> None]),
          Dict([productName |-> Str("BRAVIA"), modelName |-> Str("")])}

DictResponses ==
    {Dict([status |-> Str(x)]) : x \in {"active", "standby", "true", "bogus"}}
    \cup {Dict([mode |-> Str(x)]) : x \in {"Demo", "off", "bogus"}}
    \cup {Dict([status |-> Str("false"), mode |-> Str("Off")]),
          Dict([status |-> Str("true"), mode |-> Str("bogus")]),
          Dict([mode |-> List(<<>>)]),
          Dict([enabled |-> Bool(TRUE)]), Dict([enabled |-> Str("yes")]),
          Dict([dateTime |-> Str("2019-01-23T12:34:56+0900")]),
          Dict([dateTime |-> Str("bogus")]),
          Dict([product |-> Str("TV"), name |-> Str("")])}

Elements ==
    {Dict([currentValue |-> Str(x)]) : x \in {"on", "off", "false"}}
    \cup {Dict([target |-> Str("outputTerminal"), currentValue |-> Str(x)]) :
             x \in {"speaker", "audioSystem", "bogus"}}
    \cup {Dict([target |-> Str("tvPosition"), currentValue |-> Str(x)]) :
             x \in {"tableTop", "bogus"}}
    \cup {Dict([target |-> Str("subwooferPhase"), currentValue |-> Str(x)]) :
             x \in {"reverse", "bogus"}}
    \cup {Dict([target |-> Str("subwooferPower"), currentValue |-> Str("on")]),
          Dict([target |-> Str("speaker"), volume |-> Num(MaxVolume), mute |-> Bool(FALSE),
                minVolume |-> Num(0), maxVolume |-> Num(MaxVolume)]),
          Dict([option |-> Str("WOL"), value |-> Str("AA:BB:CC:DD:EE:FF")]),
          Dict([option |-> Str("other"), value |-> Str("")]),
          Dict([netif |-> Str("eth0"), hwAddr |-> Str("AA:BB:CC:DD:EE:FF"), dns |-> List(<<>>)]),
          None}

Buttons == List(<<Dict([name |-> Str("PowerOff"), value |-> Str("AAAAAQAAAAEAAAAvAw==")])>>)

ListResponses ==
    {List(<<>>)} \cup {List(<<x>>) : x \in Elements}
    \cup {List(<<Dict([target |-> Str("tvPosition"), currentValue |-> Str("tableTop")]), x>>) :
             x \in Elements}
    \cup {List(<<Dict([bundled |-> Bool(TRUE)]), Buttons>>),
          List(<<Dict([bundled |-> Bool(TRUE)]), Dict([name |-> Str("PowerOff")])>>)}

Responses ==
    {None, Str("x"), Dict(<<>>)} \cup InterfaceResponses \cup DictResponses
    \cup ListResponses

Devices == {Failure(c) : c \in ErrorCodes} \cup {Answer(r) : r \in Responses}

(***************************************************************************)
(* State.                                                                  *)
(***************************************************************************)
VARIABLES
    initialized,   \* BraviaClient.__initialized
    device,        \* what the device answers to a request
    sent,          \* the requests sent to the device so far, each with the
                   \* state of the client's flag when it was sent
    call,          \* the last call made on the client: its method and arguments
    result,        \* the outcome of the last call
    ncalls,        \* the number of calls made so far
    failedBefore,  \* the call before the last was an initialize() that raised
    checks,        \* the number of initialize() calls that set the flag
    steady         \* the device answers what it answered during the last call

vars == <<initialized, device, sent, call, result, ncalls, failedBefore, checks,
          steady>>

Requests(o) == {o.reqs[i] : i \in 1..Len(o.reqs)}

\* The flag of a new client is the class attribute, False.
Init ==
    /\ initialized = FALSE
    /\ device \in Devices
    /\ sent = {}
    /\ call = [m |-> "", a |-> NoArgs]
    /\ result = Outcome("", None, <<>>, FALSE, 0)
    /\ ncalls = 0
    /\ failedBefore = FALSE
    /\ checks = 0
    /\ steady = TRUE

\* The call of method m with arguments a has ended with outcome o.
Completes(m, a, o) ==
    /\ initialized' = o.flag
    /\ sent' = sent \cup Requests(o)
    /\ call' = [m |-> m, a |-> a]
    /\ result' = o
    /\ ncalls' = ncalls + 1
    /\ failedBefore' = (call.m = "initialize" /\ result.raised # "")
    /\ checks' = IF ~initialized /\ o.flag THEN checks + 1 ELSE checks
    /\ steady' = TRUE
    /\ UNCHANGED device

\* The device changes what it answers.
DeviceChange ==
    /\ device' \in Devices \ {device}
    /\ steady' = FALSE
    /\ UNCHANGED <<initialized, sent, call, result, ncalls, failedBefore, checks>>

\* client.initialize()
CallInitialize ==
    /\ ncalls < MaxCalls
    /\ Completes("initialize", NoArgs, initialize(initialized, 1, device))

\* client.system.<m>(a) or client.audio.<m>(a)
CallMethod ==
    /\ ncalls < MaxCalls
    /\ \E m \in ApiMethods : \E a \in ArgsOf(m) :
           Completes(m, a, Invoke(m, a, initialized, device))

Next == DeviceChange \/ CallInitialize \/ CallMethod

Spec == Init /\ [][Next]_vars

(***************************************************************************)
(* The handling of the device's answer, taken alone: each operation as a   *)
(* function of the device's answer, applied from the point where the       *)
(* initialize() call it begins with has returned.  A method's initialize() *)
(* call returns only on a client whose flag is set; initialize() goes on   *)
(* to ask for the interface information only on a client whose flag is not *)
(* set.  No behaviour of Spec gets to this point: there every call ends in *)
(* its initialize() call (see C1).                                         *)
(***************************************************************************)
Returned(flag, d) == Outcome("", None, <<>>, flag, d)

InitAnswer ==
    /\ initialized \in BOOLEAN
    /\ device \in Devices
    /\ sent = {}
    /\ call = [m |-> "", a |-> NoArgs]
    /\ result = Outcome("", None, <<>>, FALSE, 0)
    /\ ncalls = 0
    /\ failedBefore = FALSE
    /\ checks = 0
    /\ steady = TRUE

\* initialize(), lines 49 to 68, once the initialize() call that
\* get_interface_information makes has returned
AnswerInitialize ==
    /\ ncalls = 0
    /\ ~initialized
    /\ Completes("initialize", NoArgs,
                 initialize_check(
                     get_interface_information_request(Returned(FALSE, 3), device)))

\* a method, once its initialize() call has returned
AnswerMethod ==
    /\ ncalls = 0
    /\ initialized
    /\ \E m \in ApiMethods : \E a \in ArgsOf(m) :
           Completes(m, a, Run(m, a, Returned(TRUE, 2), Returned(TRUE, 3), device))

NextAnswer == AnswerInitialize \/ AnswerMethod

SpecAnswer == InitAnswer /\ [][NextAnswer]_vars

(***************************************************************************)
(* Properties.  Each is checked over the calls made on a client (Spec).    *)
(***************************************************************************)
InterfaceRequest(r) == r.method = "getInterfaceInformation"

\* The last call reached the initialize() call it begins with.
ReachedGate == call.m = "initialize" \/ result.frames >= 2

\* The last call was of method m, and the device still answers what it
\* answered (or would have answered) during that call.
Answered(m) == ncalls >= 1 /\ steady /\ call.m = m

\* The device answers a request with a result (no error code).
Succeeded == device.err = 0

\* C1: the first initialize() on a new client sends exactly one
\* getInterfaceInformation request and then returns with the client
\* initialized or raises; it does not nest initialize() inside itself again
\* and again (initialize, get_interface_information and the initialize()
\* call that one begins with are three frames).
C1_FirstInitializeTerminates ==
    (ncalls = 1 /\ call.m = "initialize") =>
        /\ Len(result.reqs) = 1
        /\ InterfaceRequest(result.reqs[1])
        /\ (result.raised = "" => initialized)
        /\ result.frames <= 3

\* C2: the compatibility check is performed once at first use: once a call
\* has reached its initialize(), a getInterfaceInformation request has been
\* sent; no such request is ever sent by a client whose flag is set; and the
\* flag is set at most once per client.
C2_CheckedOnceAtFirstUse ==
    /\ (ncalls >= 1 /\ ReachedGate) => \E r \in sent : InterfaceRequest(r)
    /\ \A r \in sent : InterfaceRequest(r) => ~r.init
    /\ checks <= 1

\* The interface version the device reports, None when it reports none.
ReportedVersion ==
    IF Succeeded /\ device.resp.t = "dict" /\ "interfaceVersion" \in DOMAIN device.resp.kv
    THEN device.resp.kv["interfaceVersion"] ELSE None

\* 3.0.0 <= v < 4.0.0: the major number of v is 3
Compatible(v) == v.t = "ver" /\ Seg(v.rel, 1) = 3

\* C3: initialize() sets the flag only when the device reports a version v
\* with 3.0.0 <= v < 4.0.0; when the version is missing or empty, or below
\* 3.0.0, or 4.0.0 or above, it raises ApiError and the flag stays unset.
\* (Holds under SpecAnswer.)
C3_VersionRange ==
    Answered("initialize") =>
        /\ initialized => Compatible(ReportedVersion)
        /\ (Succeeded /\ device.resp.t = "dict" /\ ~Compatible(ReportedVersion)) =>
               (result.raised = "ApiError" /\ ~initialized)

\* C4: when the getInterfaceInformation request fails, initialize() raises
\* ApiError, and nothing else, and the flag stays unset.
C4_RequestFailureIsApiError ==
    (Answered("initialize") /\ ~Succeeded) =>
        (result.raised = "ApiError" /\ ~initialized)

\* C5: no request other than getInterfaceInformation has been sent by a
\* client that was not initialized.
C5_LazyInitializationGate ==
    \A r \in sent : r.init \/ InterfaceRequest(r)

\* C5's case: a public method was called on a client that is not initialized,
\* reached its initialize() call and ended without a request of its own.
C5_Witness ==
    /\ ncalls >= 1
    /\ call.m \in ApiMethods \ {"get_interface_information"}
    /\ result.frames >= 2
    /\ ~initialized
    /\ result.raised # ""
    /\ \A r \in sent : InterfaceRequest(r)

\* The error codes for which a method returns None instead of raising.
ReturnsNoneFor(m, c) ==
    \/ m = "get_current_time" /\ c = ILLEGAL_STATE
    \/ m = "get_sound_settings" /\ c = ILLEGAL_ARGUMENT

\* C6: a method (here: each one that takes no argument) called while the
\* device answers its request with an error code raises BraviaApiError, or
\* returns None for the code it returns None for; HttpError never reaches the
\* caller.
C6_DeviceErrorIsTyped ==
    (ncalls >= 1 /\ steady /\ call.m \in NoArgMethods /\ ~Succeeded) =>
        /\ result.raised # "HttpError"
        /\ IF ReturnsNoneFor(call.m, device.err)
           THEN result.raised = "" /\ result.val = None
           ELSE result.raised = "BraviaApiError"

\* x is a string that is no key of table
Unlisted(x, table) == x.t = "str" /\ x.s \notin DOMAIN table

HasStr(d, k) == d.t = "dict" /\ k \in DOMAIN d.kv /\ d.kv[k].t = "str"

\* A speaker setting whose value is an enumeration string outside its table.
UnlistedSetting(x) ==
    /\ HasStr(x, "target") /\ HasStr(x, "currentValue")
    /\ \/ x.kv["target"].s = "tvPosition" /\ Unlisted(x.kv["currentValue"], TvPositions)
       \/ x.kv["target"].s = "subwooferPhase"
            /\ Unlisted(x.kv["currentValue"], SubwooferPhases)

\* The device's answer r holds an enumeration string that is not in the
\* translation table of method m.
UnlistedEnumeration(m, r) ==
    CASE m = "get_power_status" ->
            HasStr(r, "status") /\ r.kv["status"].s \notin {"standby", "active"}
      [] m = "get_led_status" -> HasStr(r, "mode") /\ Unlisted(r.kv["mode"], LedModes)
      [] m = "get_power_saving_mode" ->
            HasStr(r, "mode") /\ Unlisted(r.kv["mode"], PowerSavingModes)
      [] m = "get_sound_settings" ->
            /\ r.t = "list" /\ Len(r.items) = 1
            /\ HasStr(r.items[1], "currentValue")
            /\ Unlisted(r.items[1].kv["currentValue"], AudioOutputs)
      [] m = "get_speaker_settings" ->
            /\ r.t = "list"
            /\ \A i \in 1..Len(r.items) : r.items[i].t = "dict"
            /\ \E i \in 1..Len(r.items) : UnlistedSetting(r.items[i])
      [] OTHER -> FALSE

IsUnknown(x) == x.t = "enum" /\ x.name = "UNKNOWN"

\* The value a call returned holds an UNKNOWN enum member.
ReturnsUnknown(v) ==
    \/ IsUnknown(v)
    \/ v.t = "dict" /\ \E k \in DOMAIN v.kv : IsUnknown(v.kv[k])

\* C7: a method called while the device answers with an enumeration string
\* that is not in the method's translation table raises BraviaApiError, and
\* no method returns an UNKNOWN enum member.  (Holds under SpecAnswer.)
C7_UnlistedEnumerationRaises ==
    (ncalls >= 1 /\ steady /\ Succeeded) =>
        /\ UnlistedEnumeration(call.m, device.resp) => result.raised = "BraviaApiError"
        /\ result.raised = "" => ~ReturnsUnknown(result.val)

\* r has a length, and it is not n
LengthNot(r, n) == PyLen(r).raised = "" /\ PyLen(r).val.n # n

\* The device's answer r does not have the shape method m expects.
UnexpectedShape(m, r) ==
    CASE m = "get_sound_settings" -> ~(r.t = "list" /\ Len(r.items) = 1)
      [] m = "get_remote_control_info" -> LengthNot(r, 2)
      [] m \in {"get_remote_access_status", "get_wake_on_lan_information"} ->
            LengthNot(r, 1)
      [] m \in {"get_network_settings", "get_speaker_settings",
                "get_volume_information"} -> r.t # "list"
      [] OTHER -> FALSE

\* C8: a method called (get_network_settings: with None or a string) while
\* the device answers with a result that does not have the expected shape
\* raises BraviaApiError.
C8_UnexpectedShapeIsTyped ==
    (ncalls >= 1 /\ steady /\ Succeeded /\ call.a[1].t \in {"none", "str"}
        /\ UnexpectedShape(call.m, device.resp)) =>
        result.raised = "BraviaApiError"

\* C9: get_remote_access_status with a one-element answer returns True for
\* "on", False for "false", and raises BraviaApiError for any other value.
C9_RemoteAccessStatus ==
    (Answered("get_remote_access_status") /\ Succeeded
        /\ device.resp.t = "list" /\ Len(device.resp.items) = 1
        /\ HasStr(device.resp.items[1], "currentValue")) =>
        LET currentValue == device.resp.items[1].kv["currentValue"].s
        IN  CASE currentValue = "on" -> result.raised = "" /\ result.val = Bool(TRUE)
              [] currentValue = "false" -> result.raised = "" /\ result.val = Bool(FALSE)
              [] OTHER -> result.raised = "BraviaApiError"

\* C10: the flag never goes back from true to false, an initialize() that
\* raises leaves it false, and the API method call that follows a failed
\* initialize() sends getInterfaceInformation again before its own request.
C10_FailureKeepsGateClosed ==
    /\ checks >= 1 => initialized
    /\ (call.m = "initialize" /\ result.raised # "") => ~initialized
    /\ (failedBefore /\ call.m \in ApiMethods /\ ReachedGate) =>
           \E i \in 1..Len(result.reqs) : InterfaceRequest(result.reqs[i])

====
